---- MODULE Spec2Model ----
(***************************************************************************)
(* Model of the durable knowledge agent (src/agent/knowledge_agent.py):    *)
(* the checkpoint store (_load_checkpoint, _save_checkpoint, reset) and    *)
(* the cycle orchestrator (run_cycle, run).                                *)
(*                                                                         *)
(* One process executes the agent.  pc is its position in the code; the    *)
(* positions are the blocking calls of the code (LLM and search calls,     *)
(* file writes, the inter-cycle sleep), where an exception, a keyboard     *)
(* interrupt or a process stop can take effect.  disk is the content of    *)
(* the checkpoint file.                                                    *)
(*                                                                         *)
(* A keyboard interrupt is delivered during the inter-cycle sleep or       *)
(* inside run_cycle (its saves included), not inside the except clauses    *)
(* of run.  count0 (cycle_count at the call of run), intAt (where the      *)
(* interrupt of this run arrived), lastSave (outcome of the latest save)   *)
(* and faults (failed writes so far) record history for the properties.    *)
(*                                                                         *)
(* Spec leaves the knowledge directory out: its only reader, the gap       *)
(* identification, returns any list there.  The specifications further     *)
(* down model the parts Spec abstracts, each with the other variables at   *)
(* their rest values: SpecFallback and SpecFlow (agent and flow without    *)
(* providers, directory tracked), SpecCompile (compile stage), SpecClient  *)
(* and SpecSearch (protocol client and search stage), SpecRegistry (plugin *)
(* registries).                                                            *)
(***************************************************************************)
EXTENDS Integers, Sequences, FiniteSets, TLC

VARIABLES checkpoint, disk, now, pc, ret, cycles, delay, i, results,
          gaps, gi, cycle_results, count0, intAt, lastSave, faults

\* the knowledge directory and the locals of the stage functions
VARIABLES knowledge_dir, existing_files, search_terms, search_results,
          information

\* the protocol client (oioio_mcp_agent/utils/mcp_client.py), the requests
\* the server has received, and the perform-search task that drives the client
VARIABLES mcp_client, wire, mcp_ret, term_i, all_results, served

\* the plugin registries (oioio_mcp_agent/core/plugin.py)
VARIABLES registries, reg_ret, registered

agentVars == <<checkpoint, disk, now, pc, ret, cycles, delay, i, results,
               gaps, gi, cycle_results, count0, intAt, lastSave, faults>>
dirVars == <<knowledge_dir, existing_files>>
stageVars == <<search_terms, search_results, information>>
mcpVars == <<mcp_client, wire, mcp_ret>>
taskVars == <<term_i, all_results, served>>
regVars == <<registries, reg_ret, registered>>

\* what the checkpointed agent of Spec leaves alone
extVars == <<dirVars, stageVars, mcpVars, taskVars, regVars>>

vars == <<agentVars, extVars>>

(* ---------------------------- bounds ----------------------------------- *)
\* largest cycles argument of run()
MaxCycles == 3
\* largest number of gaps one identification returns
MaxGaps == 2
\* run() is only called while cycle_count + cycles stays within this cap
MaxCount == 3
\* the clock stops advancing at this value
MaxTime == 1
\* the number of checkpoint writes the file system lets fail
MaxFaults == 1

\* gap descriptions the identification stage can return, in the order it
\* returns them
GapNames == <<"gA", "gB", "gC", "gD">>

\* the lists of gaps one identification can return
GapLists == {SubSeq(GapNames, 1, k) : k \in 0..MaxGaps}

\* Python's None, as held in last_run_time before the first cycle
None == "None"

\* datetime.now().isoformat(): the text of the clock value t
Iso(t) == "T" \o ToString(t)

(* ------------------------- JSON text values ---------------------------- *)
JNull == [t |-> "null", v |-> "null"]
JNum(n) == [t |-> "num", v |-> n]
JStr(s) == [t |-> "str", v |-> s]
JArr(s) == [t |-> "arr", v |-> s]

\* the fields of AgentCheckpoint
CheckpointFields == {"cycle_count", "last_run_time", "knowledge_files_created",
                     "gaps_identified", "status", "created_at", "updated_at"}

\* AgentCheckpoint(created_at=now, updated_at=now): every other field default
FreshCheckpoint(t) ==
    [cycle_count |-> 0, last_run_time |-> None,
     knowledge_files_created |-> <<>>, gaps_identified |-> <<>>,
     status |-> "stopped", created_at |-> Iso(t), updated_at |-> Iso(t)]

\* DumpCheckpoint with last_run_time left out of the dump (written as null)
DumpCheckpointNoRunTime(c) ==
    [cycle_count |-> JNum(c.cycle_count),
     last_run_time |-> JNull,
     knowledge_files_created |-> JArr(c.knowledge_files_created),
     gaps_identified |-> JArr(c.gaps_identified),
     status |-> JStr(c.status),
     created_at |-> JStr(c.created_at),
     updated_at |-> JStr(c.updated_at)]

\* json.dump(checkpoint.model_dump()): the JSON object written to the file
DumpCheckpoint(c) ==
    [cycle_count |-> JNum(c.cycle_count),
     last_run_time |-> IF c.last_run_time = None THEN JNull
                       ELSE JStr(c.last_run_time),
     knowledge_files_created |-> JArr(c.knowledge_files_created),
     gaps_identified |-> JArr(c.gaps_identified),
     status |-> JStr(c.status),
     created_at |-> JStr(c.created_at),
     updated_at |-> JStr(c.updated_at)]

\* pydantic's check of one field of the parsed object d
FieldValid(d, f) ==
    CASE f = "cycle_count" -> d[f].t = "num"
      [] f = "last_run_time" -> d[f].t \in {"null", "str"}
      [] f \in {"knowledge_files_created", "gaps_identified"} -> d[f].t = "arr"
      [] OTHER -> d[f].t = "str"

\* AgentCheckpoint(**data) succeeds: created_at and updated_at are required,
\* every field present has its declared type
SchemaValid(d) ==
    /\ {"created_at", "updated_at"} \subseteq DOMAIN d
    /\ \A f \in (DOMAIN d) \cap CheckpointFields : FieldValid(d, f)

\* AgentCheckpoint(**data): fields absent from the object take their defaults
ParseCheckpoint(d) ==
    [cycle_count |-> IF "cycle_count" \in DOMAIN d THEN d["cycle_count"].v ELSE 0,
     last_run_time |-> IF "last_run_time" \in DOMAIN d
                          /\ d["last_run_time"].t = "str"
                       THEN d["last_run_time"].v ELSE None,
     knowledge_files_created |-> IF "knowledge_files_created" \in DOMAIN d
                                 THEN d["knowledge_files_created"].v ELSE <<>>,
     gaps_identified |-> IF "gaps_identified" \in DOMAIN d
                         THEN d["gaps_identified"].v ELSE <<>>,
     status |-> IF "status" \in DOMAIN d THEN d["status"].v ELSE "stopped",
     created_at |-> d["created_at"].v,
     updated_at |-> d["updated_at"].v]

(* --------------------------- the file ---------------------------------- *)
\* no checkpoint file
Absent == [kind |-> "absent"]
\* a file that is not JSON, left by something other than this program
Corrupt == [kind |-> "corrupt"]
\* the file as open(..., 'w') leaves it until json.dump has written it all
Partial == [kind |-> "partial"]
\* a file holding the complete JSON object d
JsonFile(d) == [kind |-> "json", data |-> d]

\* the file loads as a checkpoint
Loadable(f) == f.kind = "json" /\ SchemaValid(f.data)

\* LoadCheckpoint with created_at and updated_at optional (defaulting to
\* the load time) instead of required
LoadCheckpointLenient(f, t) ==
    IF f.kind = "json"
       /\ \A x \in (DOMAIN f.data) \cap CheckpointFields : FieldValid(f.data, x)
    THEN ParseCheckpoint([x \in (DOMAIN f.data) \cup {"created_at", "updated_at"} |->
                            IF x \in DOMAIN f.data THEN f.data[x] ELSE JStr(Iso(t))])
    ELSE FreshCheckpoint(t)

\* _load_checkpoint at clock value t
LoadCheckpoint(f, t) ==
    IF Loadable(f) THEN ParseCheckpoint(f.data) ELSE FreshCheckpoint(t)

\* a checkpoint a previous process left behind
OldCheckpoint ==
    [cycle_count |-> 1, last_run_time |-> Iso(0),
     knowledge_files_created |-> <<"gA_0">>, gaps_identified |-> <<"gA">>,
     status |-> "stopped", created_at |-> Iso(0), updated_at |-> Iso(0)]

\* the files the agent can find when it is constructed
InitDisks ==
    {Absent, Corrupt,
     JsonFile(DumpCheckpoint(OldCheckpoint)),
     \* a JSON object without created_at
     JsonFile([cycle_count |-> JNum(1), updated_at |-> JStr(Iso(0))]),
     \* a JSON object whose cycle_count is not a number
     JsonFile([DumpCheckpoint(OldCheckpoint) EXCEPT !.cycle_count = JStr("many")])}

(* ------------------- rest values of the components --------------------- *)
\* Python's None
PyNone == [py |-> "None"]

\* the knowledge directory is empty and no identification has listed it
DirRest == knowledge_dir = {} /\ existing_files = {}

\* no stage function has run
StageRest == search_terms = <<>> /\ search_results = <<>> /\ information = PyNone

\* MCPClient.__init__: no session, no capabilities; nothing sent, no call made
NewClient == [session_id |-> PyNone, capabilities |-> [t |-> "obj", v |-> <<>>]]
\* mcp_ret: the latest call of a client method (n counts the calls), the
\* response the transport gave it and the value it returned
NoCall == [op |-> "none", n |-> 0, response |-> PyNone, value |-> PyNone]
McpRest == mcp_client = NewClient /\ wire = <<>> /\ mcp_ret = NoCall

\* perform_web_search has not been called
TaskRest == term_i = 0 /\ all_results = <<>> /\ served = <<>>

\* _registries = {}: no registry exists; no call has been made
\* registered lists, oldest first, the register calls that returned a class
RegRest == registries = <<>> /\ reg_ret = [op |-> "none"] /\ registered = <<>>

(* ------------------------------ Init ----------------------------------- *)
\* cycle_results before a cycle has built one
NoCycleResults ==
    [cycle_number |-> 0, gaps_found |-> 0, files_created |-> 0, errors |-> <<>>]

\* the state after KnowledgeAgent(...) has been constructed: the checkpoint
\* is what _load_checkpoint made of the file it found
Init ==
    /\ disk \in InitDisks
    /\ now = 0
    /\ checkpoint = LoadCheckpoint(disk, now)
    /\ pc = "constructed"
    /\ cycles = 0 /\ delay = 0 /\ i = 0 /\ results = <<>>
    /\ gaps = <<>> /\ gi = 0 /\ cycle_results = NoCycleResults
    /\ count0 = 0 /\ intAt = "none" /\ lastSave = "none" /\ ret = "none"
    /\ faults = 0
    /\ DirRest /\ StageRest /\ McpRest /\ TaskRest /\ RegRest

\* no run() call is active: the variables of a run hold their rest values
ClearRun ==
    /\ cycles' = 0 /\ delay' = 0 /\ i' = 0 /\ results' = <<>>
    /\ gaps' = <<>> /\ gi' = 0 /\ cycle_results' = NoCycleResults
    /\ count0' = 0 /\ intAt' = "none" /\ lastSave' = "none" /\ ret' = "none"

\* the agent is constructed and no operation is in progress
AtRest == pc \in {"constructed", "idle"}

(* ------------------------- _save_checkpoint ---------------------------- *)
\* entry of _save_checkpoint on checkpoint value c: updated_at is refreshed,
\* the write comes next; r is where the caller continues afterwards
BeginSave(c, r) ==
    /\ checkpoint' = [c EXCEPT !.updated_at = Iso(now)]
    /\ pc' = "save_open"
    /\ ret' = r

\* open(checkpoint_file, 'w') succeeds: the file is truncated
SaveOpenOk ==
    /\ pc = "save_open"
    /\ disk' = Partial
    /\ pc' = "save_dump"
    /\ UNCHANGED <<extVars, faults, checkpoint, now, ret, cycles, delay, i, results, gaps, gi,
                   cycle_results, count0, intAt, lastSave>>

\* SaveOpenFail without the except clause: the exception leaves run
SaveOpenFailRaise ==
    /\ pc = "save_open"
    /\ pc' = "run_raised"
    /\ lastSave' = "failed"
    /\ faults < MaxFaults
    /\ faults' = faults + 1
    /\ UNCHANGED <<extVars, checkpoint, disk, now, ret, cycles, delay, i, results, gaps,
                   gi, cycle_results, count0, intAt>>

\* open() raises: the exception is logged, the file is untouched
SaveOpenFail ==
    /\ pc = "save_open"
    /\ pc' = ret
    /\ lastSave' = "failed"
    /\ faults < MaxFaults
    /\ faults' = faults + 1
    /\ UNCHANGED <<extVars, checkpoint, disk, now, ret, cycles, delay, i, results, gaps,
                   gi, cycle_results, count0, intAt>>

\* json.dump writes the whole object
SaveDumpOk ==
    /\ pc = "save_dump"
    /\ disk' = JsonFile(DumpCheckpoint(checkpoint))
    /\ pc' = ret
    /\ lastSave' = "ok"
    /\ UNCHANGED <<extVars, faults, checkpoint, now, ret, cycles, delay, i, results, gaps, gi,
                   cycle_results, count0, intAt>>

\* json.dump raises part-way: the exception is logged, the file stays as
\* far as it was written
SaveDumpFail ==
    /\ pc = "save_dump"
    /\ pc' = ret
    /\ lastSave' = "failed"
    /\ faults < MaxFaults
    /\ faults' = faults + 1
    /\ UNCHANGED <<extVars, checkpoint, disk, now, ret, cycles, delay, i, results, gaps,
                   gi, cycle_results, count0, intAt>>

(* ------------------------------ run ------------------------------------ *)
\* run(cycles=n, delay=d) is called
Run(n, d) ==
    /\ AtRest
    /\ checkpoint.cycle_count + n <= MaxCount
    /\ cycles' = n /\ delay' = d /\ i' = 0 /\ results' = <<>>
    /\ count0' = checkpoint.cycle_count
    /\ intAt' = "none"
    /\ pc' = "loop"
    /\ UNCHANGED <<extVars, faults, checkpoint, disk, now, ret, gaps, gi, cycle_results,
                   lastSave>>

\* the first statements of run_cycle, up to the call of _identify_knowledge_gaps
BeginCycle ==
    /\ checkpoint' = [checkpoint EXCEPT !.cycle_count = @ + 1,
                                        !.status = "running",
                                        !.last_run_time = Iso(now)]
    /\ pc' = "identify"
    /\ gaps' = <<>> /\ gi' = 0 /\ cycle_results' = NoCycleResults
    /\ UNCHANGED <<extVars, faults, disk, now, ret, cycles, delay, i, results, count0, intAt,
                   lastSave>>

\* for i in range(cycles): the next iteration starts run_cycle, or sleeps
\* first when i > 0 and delay > 0
LoopCycle ==
    /\ pc = "loop"
    /\ i < cycles
    /\ ~(i > 0 /\ delay > 0)
    /\ BeginCycle

LoopSleep ==
    /\ pc = "loop"
    /\ i < cycles
    /\ i > 0 /\ delay > 0
    /\ pc' = "sleep"
    /\ UNCHANGED <<extVars, faults, checkpoint, disk, now, ret, cycles, delay, i, results, gaps,
                   gi, cycle_results, count0, intAt, lastSave>>

\* time.sleep(delay) returns
SleepDone ==
    /\ pc = "sleep"
    /\ BeginCycle

\* KeyboardInterrupt during time.sleep(delay)
SleepInterrupt ==
    /\ pc = "sleep"
    /\ pc' = "sleep_interrupted"
    /\ intAt' = "sleep"
    /\ UNCHANGED <<extVars, faults, checkpoint, disk, now, ret, cycles, delay, i, results, gaps,
                   gi, cycle_results, count0, lastSave>>

\* the loop is exhausted: run returns results
LoopDone ==
    /\ pc = "loop"
    /\ i >= cycles
    /\ pc' = "run_returned"
    /\ UNCHANGED <<extVars, faults, checkpoint, disk, now, ret, cycles, delay, i, results, gaps,
                   gi, cycle_results, count0, intAt, lastSave>>

(* ---------------------------- run_cycle -------------------------------- *)
\* the path _write_knowledge_file returns for the artifact of gap g
Locator(g, t) == g \o "_" \o ToString(t)

\* the end of the for-gap loop body on checkpoint value c: the next gap, or
\* "Step 3" (status stopped, save) when gaps is exhausted
NextGap(c) ==
    IF gi < Len(gaps)
    THEN /\ gi' = gi + 1
         /\ pc' = "terms"
         /\ checkpoint' = c
         /\ ret' = ret
    ELSE /\ gi' = gi
         /\ BeginSave([c EXCEPT !.status = "stopped"], "cycle_returned")

\* IdentifyOk with gaps_identified set to the gaps of this cycle
IdentifyOkReplace(gs) ==
    /\ pc = "identify"
    /\ gaps' = gs
    /\ cycle_results' = [cycle_number |-> checkpoint.cycle_count,
                         gaps_found |-> Len(gs),
                         files_created |-> 0,
                         errors |-> <<>>]
    /\ LET c == [checkpoint EXCEPT !.gaps_identified = gs]
       IN  IF gs # <<>>
           THEN /\ gi' = 1 /\ pc' = "terms" /\ checkpoint' = c /\ ret' = ret
           ELSE /\ gi' = 0
                /\ BeginSave([c EXCEPT !.status = "stopped"], "cycle_returned")
    /\ UNCHANGED <<extVars, faults, disk, now, cycles, delay, i, results, count0, intAt, lastSave>>

\* _identify_knowledge_gaps returns gs
IdentifyOk(gs) ==
    /\ pc = "identify"
    /\ gaps' = gs
    /\ cycle_results' = [cycle_number |-> checkpoint.cycle_count,
                         gaps_found |-> Len(gs),
                         files_created |-> 0,
                         errors |-> <<>>]
    /\ LET c == [checkpoint EXCEPT !.gaps_identified = @ \o gs]
       IN  IF gs # <<>>
           THEN /\ gi' = 1 /\ pc' = "terms" /\ checkpoint' = c /\ ret' = ret
           ELSE /\ gi' = 0
                /\ BeginSave([c EXCEPT !.status = "stopped"], "cycle_returned")
    /\ UNCHANGED <<extVars, faults, disk, now, cycles, delay, i, results, count0, intAt, lastSave>>

\* IdentifyRaise with the increment of the failed cycle taken back
IdentifyRaiseRollback ==
    /\ pc = "identify"
    /\ BeginSave([checkpoint EXCEPT !.status = "error", !.cycle_count = @ - 1],
                 "cycle_raised")
    /\ UNCHANGED <<extVars, faults, disk, now, cycles, delay, i, results, gaps, gi,
                   cycle_results, count0, intAt, lastSave>>

\* _identify_knowledge_gaps raises: the outer except of run_cycle
IdentifyRaise ==
    /\ pc = "identify"
    /\ BeginSave([checkpoint EXCEPT !.status = "error"], "cycle_raised")
    /\ UNCHANGED <<extVars, faults, disk, now, cycles, delay, i, results, gaps, gi,
                   cycle_results, count0, intAt, lastSave>>

\* _generate_search_terms returns
GenerateTermsOk ==
    /\ pc = "terms"
    /\ pc' = "search"
    /\ UNCHANGED <<extVars, faults, checkpoint, disk, now, ret, cycles, delay, i, results, gaps,
                   gi, cycle_results, count0, intAt, lastSave>>

\* _perform_web_search returns
WebSearchOk ==
    /\ pc = "search"
    /\ pc' = "compile"
    /\ UNCHANGED <<extVars, faults, checkpoint, disk, now, ret, cycles, delay, i, results, gaps,
                   gi, cycle_results, count0, intAt, lastSave>>

\* _compile_knowledge_with_citations / _generate_content_without_citations
\* returns
CompileOk ==
    /\ pc = "compile"
    /\ pc' = "write"
    /\ UNCHANGED <<extVars, faults, checkpoint, disk, now, ret, cycles, delay, i, results, gaps,
                   gi, cycle_results, count0, intAt, lastSave>>

\* WriteOk without the count of the file in cycle_results
WriteOkUncounted ==
    /\ pc = "write"
    /\ cycle_results' = cycle_results
    /\ NextGap([checkpoint EXCEPT !.knowledge_files_created =
                                     Append(@, Locator(gaps[gi], now))])
    /\ UNCHANGED <<extVars, faults, disk, now, cycles, delay, i, results, gaps, count0, intAt,
                   lastSave>>

\* _write_knowledge_file returns the path: it is appended to the checkpoint
WriteOk ==
    /\ pc = "write"
    /\ cycle_results' = [cycle_results EXCEPT !.files_created = @ + 1]
    /\ NextGap([checkpoint EXCEPT !.knowledge_files_created =
                                     Append(@, Locator(gaps[gi], now))])
    /\ UNCHANGED <<extVars, faults, disk, now, cycles, delay, i, results, gaps, count0, intAt,
                   lastSave>>

\* the positions inside the try of the for-gap loop body
GapStages == {"terms", "search", "compile", "write"}

\* StageRaise with the try around the whole loop instead of its body: the
\* first failing gap ends the loop
StageRaiseAbort ==
    /\ pc \in GapStages
    /\ cycle_results' = [cycle_results EXCEPT !.errors = Append(@, gaps[gi])]
    /\ gi' = gi
    /\ BeginSave([checkpoint EXCEPT !.status = "stopped"], "cycle_returned")
    /\ UNCHANGED <<extVars, faults, disk, now, cycles, delay, i, results, gaps, count0,
                   intAt, lastSave>>

\* an Exception at a stage of the current gap: the inner except of run_cycle
StageRaise ==
    /\ pc \in GapStages
    /\ cycle_results' = [cycle_results EXCEPT !.errors = Append(@, gaps[gi])]
    /\ NextGap(checkpoint)
    /\ UNCHANGED <<extVars, faults, disk, now, cycles, delay, i, results, gaps, count0, intAt,
                   lastSave>>

\* the positions inside run_cycle
InCycle ==
    \/ pc \in {"identify"} \cup GapStages
    \/ pc \in {"save_open", "save_dump"} /\ ret \in {"cycle_returned", "cycle_raised"}

\* KeyboardInterrupt inside run_cycle: no except clause of run_cycle or of
\* _save_checkpoint matches it, it leaves run_cycle
CycleInterrupt ==
    /\ InCycle
    /\ pc' = "cycle_interrupted"
    /\ intAt' = "cycle"
    /\ UNCHANGED <<extVars, faults, checkpoint, disk, now, ret, cycles, delay, i, results, gaps,
                   gi, cycle_results, count0, lastSave>>

(* ------------------------ run: after run_cycle ------------------------- *)
\* run_cycle returned: results.append(cycle_result), next iteration
AppendResult ==
    /\ pc = "cycle_returned"
    /\ results' = Append(results, cycle_results)
    /\ i' = i + 1
    /\ pc' = "loop"
    /\ UNCHANGED <<extVars, faults, checkpoint, disk, now, ret, cycles, delay, gaps, gi,
                   cycle_results, count0, intAt, lastSave>>

\* CatchInterrupt that re-raises after saving
CatchInterruptReraise ==
    /\ pc \in {"sleep_interrupted", "cycle_interrupted"}
    /\ BeginSave([checkpoint EXCEPT !.status = "interrupted"], "run_raised")
    /\ UNCHANGED <<extVars, faults, disk, now, cycles, delay, i, results, gaps, gi,
                   cycle_results, count0, intAt, lastSave>>

\* CatchInterrupt that takes back the increment of the interrupted cycle
CatchInterruptRollback ==
    /\ pc \in {"sleep_interrupted", "cycle_interrupted"}
    /\ BeginSave([checkpoint EXCEPT !.status = "interrupted",
                                    !.cycle_count = count0 + Len(results)],
                 "run_returned")
    /\ UNCHANGED <<extVars, faults, disk, now, cycles, delay, i, results, gaps, gi,
                   cycle_results, count0, intAt, lastSave>>

\* except KeyboardInterrupt in run
CatchInterrupt ==
    /\ pc \in {"sleep_interrupted", "cycle_interrupted"}
    /\ BeginSave([checkpoint EXCEPT !.status = "interrupted"], "run_returned")
    /\ UNCHANGED <<extVars, faults, disk, now, cycles, delay, i, results, gaps, gi,
                   cycle_results, count0, intAt, lastSave>>

\* CatchError without the re-raise: run returns its results
CatchErrorSwallow ==
    /\ pc = "cycle_raised"
    /\ BeginSave([checkpoint EXCEPT !.status = "error"], "run_returned")
    /\ UNCHANGED <<extVars, faults, disk, now, cycles, delay, i, results, gaps, gi,
                   cycle_results, count0, intAt, lastSave>>

\* except Exception in run: status error, save, re-raise
CatchError ==
    /\ pc = "cycle_raised"
    /\ BeginSave([checkpoint EXCEPT !.status = "error"], "run_raised")
    /\ UNCHANGED <<extVars, faults, disk, now, cycles, delay, i, results, gaps, gi,
                   cycle_results, count0, intAt, lastSave>>

\* the caller of run has taken the results or the exception
RunExit ==
    /\ pc \in {"run_returned", "run_raised"}
    /\ pc' = "idle"
    /\ ClearRun
    /\ UNCHANGED <<extVars, faults, checkpoint, disk, now>>

(* ------------------------------ reset ---------------------------------- *)
\* what reset() returns: the function has no return statement
ResetReturn == PyNone

\* Reset that keeps the history and only sets the status
ResetKeepHistory ==
    /\ AtRest
    /\ BeginSave([checkpoint EXCEPT !.status = "stopped"], "reset_done")
    /\ UNCHANGED <<extVars, faults, disk, now, cycles, delay, i, results, gaps, gi,
                   cycle_results, count0, intAt, lastSave>>

\* reset(): a fresh checkpoint replaces the current one and is saved
Reset ==
    /\ AtRest
    /\ BeginSave(FreshCheckpoint(now), "reset_done")
    /\ UNCHANGED <<extVars, faults, disk, now, cycles, delay, i, results, gaps, gi,
                   cycle_results, count0, intAt, lastSave>>

\* reset has returned
ResetExit ==
    /\ pc = "reset_done"
    /\ pc' = "idle"
    /\ ClearRun
    /\ UNCHANGED <<extVars, faults, checkpoint, disk, now>>

(* ----------------------- process stop and restart ---------------------- *)
\* the process stops (kill, power loss): only the file survives
Crash ==
    /\ pc # "down"
    /\ pc' = "down"
    /\ checkpoint' = FreshCheckpoint(0)
    /\ ClearRun
    /\ UNCHANGED <<extVars, faults, disk, now>>

\* a new process constructs the agent: __init__ loads the checkpoint
Restart ==
    /\ pc = "down"
    /\ checkpoint' = LoadCheckpoint(disk, now)
    /\ pc' = "constructed"
    /\ UNCHANGED <<extVars, faults, disk, now, ret, cycles, delay, i, results, gaps, gi,
                   cycle_results, count0, intAt, lastSave>>

\* time passes
Tick ==
    /\ now < MaxTime
    /\ now' = now + 1
    /\ UNCHANGED <<extVars, faults, checkpoint, disk, pc, ret, cycles, delay, i, results, gaps,
                   gi, cycle_results, count0, intAt, lastSave>>

Next ==
    \/ \E n \in 0..MaxCycles, d \in {0, 1} : Run(n, d)
    \/ LoopCycle \/ LoopSleep \/ SleepDone \/ SleepInterrupt \/ LoopDone
    \/ \E gs \in GapLists : IdentifyOk(gs)
    \/ IdentifyRaise
    \/ GenerateTermsOk \/ WebSearchOk \/ CompileOk \/ WriteOk \/ StageRaise
    \/ CycleInterrupt
    \/ SaveOpenOk \/ SaveOpenFail \/ SaveDumpOk \/ SaveDumpFail
    \/ AppendResult \/ CatchInterrupt \/ CatchError \/ RunExit
    \/ Reset \/ ResetExit
    \/ Crash \/ Restart
    \/ Tick

Spec == Init /\ [][Next]_vars

TypeOK ==
    /\ checkpoint.cycle_count \in 0..MaxCount
    /\ checkpoint.status \in {"stopped", "running", "error", "interrupted"}
    /\ now \in 0..MaxTime

(* ------------------------------ claims --------------------------------- *)
\* the set of elements of sequence s
Range(s) == {s[k] : k \in 1..Len(s)}

\* the gaps of the current cycle whose processing did not fail, in order
Succeeded ==
    LET ok(g) == g \notin Range(cycle_results.errors) IN SelectSeq(gaps, ok)

\* the checkpoint a load of the file would return
Persisted == LoadCheckpoint(disk, now)

\* C1: when run_cycle returns, every gap of the cycle was processed: a gap
\* whose stage raised has exactly one entry in errors, every other gap has its
\* file counted in files_created and its locator appended, in order, and the
\* status is stopped.
C1_GapFailureIsolated ==
    pc = "cycle_returned" =>
        LET e == cycle_results.errors
            n == cycle_results.files_created
            k == checkpoint.knowledge_files_created
        IN  /\ checkpoint.status = "stopped"
            /\ Range(e) \subseteq Range(gaps)
            /\ Cardinality(Range(e)) = Len(e)
            /\ n = Len(Succeeded)
            /\ n + Len(e) = Len(gaps)
            /\ Len(k) >= n
            /\ \A j \in 1..n :
                  k[Len(k) - n + j] \in {Locator(Succeeded[j], t) : t \in 0..MaxTime}

\* C1 witness: the first gap failed and a later gap got its file
C1_Witness ==
    /\ pc = "cycle_returned"
    /\ Len(gaps) = 2
    /\ cycle_results.errors = <<gaps[1]>>
    /\ cycle_results.files_created = 1

\* C2: inside the (i+1)-th run_cycle of a run, and however that call ends,
\* cycle_count is the value at the call of run plus i + 1; a run that was not
\* interrupted returns cycles results and has raised cycle_count by cycles.
C2_CycleCountPerCall ==
    /\ (InCycle \/ pc \in {"cycle_returned", "cycle_raised", "cycle_interrupted"})
          => checkpoint.cycle_count = count0 + i + 1
    /\ pc \in {"loop", "sleep", "sleep_interrupted"}
          => checkpoint.cycle_count = count0 + i
    /\ (pc = "run_returned" /\ intAt = "none")
          => /\ checkpoint.cycle_count = count0 + cycles
             /\ Len(results) = cycles

\* C2 witness: run(cycles=3) has returned without interrupt
C2_Witness ==
    /\ pc = "run_returned" /\ intAt = "none" /\ cycles = 3
    /\ checkpoint.cycle_count = count0 + 3

\* C3: once the process has stopped, and when a new process loads, the
\* checkpoint file is never a partially written one.
C3_NoPartialCheckpoint ==
    pc \in {"down", "constructed"} => disk.kind # "partial"

\* C4: a load of a missing, unparseable or schema-violating file returns a
\* fresh checkpoint: cycle_count 0, status stopped, empty sequences, no
\* last_run_time, created_at = updated_at.
C4_LoadNeverFails ==
    (pc = "constructed" /\ ~(disk.kind = "json" /\ SchemaValid(disk.data))) =>
        /\ checkpoint.cycle_count = 0
        /\ checkpoint.status = "stopped"
        /\ checkpoint.knowledge_files_created = <<>>
        /\ checkpoint.gaps_identified = <<>>
        /\ checkpoint.last_run_time = None
        /\ checkpoint.created_at = checkpoint.updated_at
        /\ checkpoint.created_at \in {Iso(t) : t \in 0..now}

\* C4 witness: the agent was constructed over a JSON file that violates the
\* schema, after the clock had advanced
C4_Witness ==
    /\ pc = "constructed"
    /\ disk.kind = "json" /\ ~SchemaValid(disk.data)
    /\ checkpoint.created_at = Iso(1)

\* C5: after a save that succeeded, loading the file gives back the
\* checkpoint in memory, field for field; and saving what a load returns
\* would rewrite the file with no field changed but updated_at.
C5_RoundTrip ==
    /\ (lastSave = "ok" /\ pc \in {"cycle_returned", "cycle_raised",
                                   "run_returned", "run_raised", "reset_done"})
          => /\ disk.kind = "json"
             /\ SchemaValid(disk.data)
             /\ ParseCheckpoint(disk.data) = checkpoint
    /\ (disk.kind = "json" /\ SchemaValid(disk.data))
          => LET again == DumpCheckpoint(ParseCheckpoint(disk.data))
             IN  /\ DOMAIN again = DOMAIN disk.data
                 /\ \A f \in CheckpointFields \ {"updated_at"} :
                       again[f] = disk.data[f]

\* C5 witness: a cycle that wrote a file has saved its checkpoint
C5_Witness ==
    /\ pc = "cycle_returned" /\ lastSave = "ok"
    /\ checkpoint.knowledge_files_created # <<>>
    /\ checkpoint.last_run_time # None

\* C6: whenever run_cycle has exited, the status is the terminal value of the
\* way it exited: stopped on return, error on an exception, interrupted on a
\* keyboard interrupt.
C6_TerminalStatusAtExit ==
    /\ pc = "cycle_returned" => checkpoint.status = "stopped"
    /\ pc = "cycle_raised" => checkpoint.status = "error"
    /\ pc = "cycle_interrupted" => checkpoint.status = "interrupted"

\* C7: while gap identification runs, the file holds the checkpoint of the
\* cycle start: status running, the incremented cycle_count, the new
\* last_run_time.
C7_RunningPersistedAtStart ==
    pc = "identify" =>
        /\ disk.kind = "json" /\ SchemaValid(disk.data)
        /\ Persisted.status = "running"
        /\ Persisted.cycle_count = checkpoint.cycle_count
        /\ Persisted.last_run_time = checkpoint.last_run_time

\* C8: when run_cycle or run exits with the exception of gap identification,
\* the status is error and a save that succeeded left error in the file; a
\* cycle in which only gap stages failed runs on with status running and
\* returns with status stopped, and a run whose cycles all returned ends
\* stopped.
C8_IdentifyFailure ==
    /\ pc \in {"cycle_raised", "run_raised"}
          => /\ checkpoint.status = "error"
             /\ lastSave = "ok" => (disk.kind = "json" /\ Persisted.status = "error")
    /\ pc \in GapStages => checkpoint.status = "running"
    /\ pc = "cycle_returned" => checkpoint.status = "stopped"
    /\ (pc = "run_returned" /\ intAt = "none" /\ cycles > 0)
          => checkpoint.status = "stopped"

\* C8 witness: run has re-raised the exception and error is on disk
C8_Witness ==
    /\ pc = "run_raised" /\ lastSave = "ok"
    /\ disk.kind = "json" /\ Persisted.status = "error"

\* C9: a run that was interrupted, in the delay or inside a cycle, returns
\* normally with status interrupted, the results of the cycles that returned,
\* and interrupted in the file when the save succeeded; it never exits with an
\* exception, and the file never shows status running.
C9_InterruptedRun ==
    /\ (pc = "run_returned" /\ intAt # "none")
          => /\ checkpoint.status = "interrupted"
             /\ Len(results) = i
             /\ \A k \in 1..Len(results) : results[k].cycle_number = count0 + k
             /\ lastSave = "ok" => (disk.kind = "json" /\ Persisted = checkpoint)
    /\ intAt # "none" => pc # "run_raised"
    /\ (disk.kind = "json" /\ SchemaValid(disk.data)) => Persisted.status # "running"

\* C9 witness: interrupted inside the second cycle, one result returned
C9_Witness ==
    /\ pc = "run_returned" /\ intAt = "cycle" /\ lastSave = "ok"
    /\ Len(results) = 1
    /\ Persisted.status = "interrupted"

\* C10 as stated: after an interrupted run the increase of cycle_count is the
\* number of results returned.
C10_CountEqualsResults ==
    (pc = "run_returned" /\ intAt # "none")
        => checkpoint.cycle_count - count0 = Len(results)

\* C10 amended: the increase of cycle_count is the number of results when the
\* interrupt came in the delay between cycles, and one more than that when it
\* came inside a cycle.
C10_CountAfterInterrupt ==
    /\ (pc = "run_returned" /\ intAt = "sleep")
          => /\ checkpoint.status = "interrupted"
             /\ checkpoint.cycle_count - count0 = Len(results)
    /\ (pc = "run_returned" /\ intAt = "cycle")
          => /\ checkpoint.status = "interrupted"
             /\ checkpoint.cycle_count - count0 = Len(results) + 1

\* C10 witness: run(cycles=3) interrupted in the delay after cycle 1
C10_Witness ==
    /\ pc = "run_returned" /\ intAt = "sleep" /\ cycles = 3
    /\ count0 = 0 /\ checkpoint.cycle_count = 1 /\ Len(results) = 1
    /\ checkpoint.status = "interrupted"

\* C11: when the process stops while a gap is being processed, the checkpoint
\* a rebuilt agent loads holds every locator the stopped process had appended
\* (each one the path of a file already written).
C11_ResumeKeepsLocators ==
    [][(pc \in GapStages /\ pc' = "down")
          => Range(checkpoint.knowledge_files_created)
                \subseteq Range(LoadCheckpoint(disk', now').knowledge_files_created)]_vars

(* ============================ text ===================================== *)
\* substring test: sub in s
Contains(s, sub) ==
    \E k \in 1..(Len(s) - Len(sub) + 1) : SubSeq(s, k, k + Len(sub) - 1) = sub

\* the lower-case letter of each upper-case letter
LowerOf ==
    [A |-> "a", B |-> "b", C |-> "c", D |-> "d", E |-> "e", F |-> "f", G |-> "g",
     H |-> "h", I |-> "i", J |-> "j", K |-> "k", L |-> "l", M |-> "m", N |-> "n",
     O |-> "o", P |-> "p", Q |-> "q", R |-> "r", S |-> "s", T |-> "t", U |-> "u",
     V |-> "v", W |-> "w", X |-> "x", Y |-> "y", Z |-> "z"]

\* str.lower() of the one-character string c
LowerChar(c) == IF c \in DOMAIN LowerOf THEN LowerOf[c] ELSE c

\* str.lower()
RECURSIVE Lower(_)
Lower(s) ==
    IF Len(s) = 0 THEN s
    ELSE LowerChar(SubSeq(s, 1, 1)) \o Lower(SubSeq(s, 2, Len(s)))

\* str.replace(old, new): every occurrence, found left to right
RECURSIVE Replace(_, _, _)
Replace(s, old, new) ==
    IF Len(s) < Len(old) THEN s
    ELSE IF SubSeq(s, 1, Len(old)) = old
         THEN new \o Replace(SubSeq(s, Len(old) + 1, Len(s)), old, new)
         ELSE SubSeq(s, 1, 1) \o Replace(SubSeq(s, 2, Len(s)), old, new)

\* str.startswith / str.endswith
StartsWith(s, x) == Len(s) >= Len(x) /\ SubSeq(s, 1, Len(x)) = x
EndsWith(s, x) == Len(s) >= Len(x) /\ SubSeq(s, Len(s) - Len(x) + 1, Len(s)) = x

(* ================= the agent without providers ========================= *)
(* SpecFallback is the agent of Spec in an environment where no text       *)
(* provider is configured (self.client is None), the search server is      *)
(* unreachable and no file operation fails.  The stage functions are the   *)
(* fallback paths of the code, on the texts the code builds, and the       *)
(* knowledge directory is tracked.                                         *)

\* expected_topics of the fallback gap identification
ExpectedTopics ==
    <<"mcp_server_architecture", "mcp_protocol_basics",
      "mcp_server_implementation", "mcp_client_integration",
      "mcp_security_considerations", "mcp_performance_optimization">>

\* the prefix of a gap the checklist reports
MissingPrefix == "Missing knowledge about: "

\* knowledge_dir.glob("*.md")
Glob(dir) == {f \in dir : EndsWith(f, ".md")}

\* FallbackGaps with the dynamic gap in the cycles after the multiples of 3
FallbackGapsShifted(files, count) ==
    LET names == {Lower(f) : f \in files}
        missing(topic) == ~ \E f \in names : Contains(f, topic)
        m == SelectSeq(ExpectedTopics, missing)
        gs == [k \in 1..Len(m) |-> MissingPrefix \o m[k]]
    IN  IF count % 3 = 1
        THEN Append(gs, "Dynamic gap identified at cycle " \o ToString(count))
        ELSE gs

\* the placeholder logic of _identify_knowledge_gaps on the files the glob
\* returned, in a cycle whose cycle_count is count
FallbackGaps(files, count) ==
    LET names == {Lower(f) : f \in files}
        missing(topic) == ~ \E f \in names : Contains(f, topic)
        m == SelectSeq(ExpectedTopics, missing)
        gs == [k \in 1..Len(m) |-> MissingPrefix \o m[k]]
    IN  IF count % 3 = 0
        THEN Append(gs, "Dynamic gap identified at cycle " \o ToString(count))
        ELSE gs

\* the placeholder document of _generate_content_without_citations; content
\* is the first line of the template
Placeholder(gap, timestamp) ==
    LET title == IF Contains(Lower(gap), "mcp_server_architecture")
                 THEN "MCP Server Architecture Overview"
                 ELSE IF Contains(Lower(gap), "protocol_basics")
                      THEN "MCP Protocol Basics"
                      ELSE "Knowledge About: " \o gap
        heading == IF title = "Knowledge About: " \o gap THEN gap ELSE title
    IN  [title |-> title, content |-> "# " \o heading,
         source |-> "placeholder_research", gathered_at |-> timestamp]

\* the file name _write_knowledge_file derives from a title at time t
KnowledgeFileName(title, t) ==
    Replace(Replace(Lower(title), " ", "_"), ":", "") \o "_" \o ToString(t) \o ".md"

\* str(self.knowledge_dir / filename)
KnowledgePath(name) == "knowledge/" \o name

\* files somebody put into the knowledge directory before the agent ran
UserFiles ==
    {"notes.txt", "MCP_Protocol_Basics.md", "mcp_client_integration.txt",
     "mcp_security_considerations_and_mcp_performance_optimization.md",
     "mcp_server_architecture_mcp_server_implementation.md",
     "mcp_client_integration_guide.md"}

\* a constructed agent with a fresh checkpoint; the directory holds any of
\* the user's files
InitFallback ==
    /\ disk = Absent
    /\ now = 0
    /\ checkpoint = LoadCheckpoint(disk, now)
    /\ pc = "constructed"
    /\ cycles = 0 /\ delay = 0 /\ i = 0 /\ results = <<>>
    /\ gaps = <<>> /\ gi = 0 /\ cycle_results = NoCycleResults
    /\ count0 = 0 /\ intAt = "none" /\ lastSave = "none" /\ ret = "none"
    /\ faults = 0
    /\ knowledge_dir \in SUBSET UserFiles /\ existing_files = {}
    /\ StageRest /\ McpRest /\ TaskRest /\ RegRest

\* _identify_knowledge_gaps without a client: the directory is listed and
\* the placeholder logic returns the gaps
FallbackIdentify ==
    /\ pc = "identify"
    /\ existing_files' = Glob(knowledge_dir)
    /\ gaps' = FallbackGaps(existing_files', checkpoint.cycle_count)
    /\ cycle_results' = [cycle_number |-> checkpoint.cycle_count,
                         gaps_found |-> Len(gaps'),
                         files_created |-> 0,
                         errors |-> <<>>]
    /\ LET c == [checkpoint EXCEPT !.gaps_identified = @ \o gaps']
       IN  IF gaps' # <<>>
           THEN /\ gi' = 1 /\ pc' = "terms" /\ checkpoint' = c /\ ret' = ret
           ELSE /\ gi' = 0
                /\ BeginSave([c EXCEPT !.status = "stopped"], "cycle_returned")
    /\ UNCHANGED <<faults, disk, now, cycles, delay, i, results, count0, intAt,
                   lastSave, knowledge_dir, stageVars, mcpVars, taskVars, regVars>>

\* _generate_search_terms without a client: the gap without its prefix
FallbackTerms ==
    /\ pc = "terms"
    /\ search_terms' = <<Replace(gaps[gi], MissingPrefix, "")>>
    /\ pc' = "search"
    /\ UNCHANGED <<checkpoint, disk, now, ret, cycles, delay, i, results, gaps,
                   gi, cycle_results, count0, intAt, lastSave, faults, dirVars,
                   search_results, information, mcpVars, taskVars, regVars>>

\* _perform_web_search when connect() returns False: no results
SearchUnreachable ==
    /\ pc = "search"
    /\ search_results' = <<>>
    /\ pc' = "compile"
    /\ UNCHANGED <<checkpoint, disk, now, ret, cycles, delay, i, results, gaps,
                   gi, cycle_results, count0, intAt, lastSave, faults, dirVars,
                   search_terms, information, mcpVars, taskVars, regVars>>

\* no search results and no client: the placeholder document
CompilePlaceholder ==
    /\ pc = "compile"
    /\ search_results = <<>>
    /\ information' = Placeholder(gaps[gi], Iso(now))
    /\ pc' = "write"
    /\ UNCHANGED <<checkpoint, disk, now, ret, cycles, delay, i, results, gaps,
                   gi, cycle_results, count0, intAt, lastSave, faults, dirVars,
                   search_terms, search_results, mcpVars, taskVars, regVars>>

\* _write_knowledge_file writes the document into the directory; its path
\* is appended to the checkpoint
WriteFile ==
    /\ pc = "write"
    /\ \E name \in {KnowledgeFileName(information.title, now)} :
          /\ knowledge_dir' = knowledge_dir \cup {name}
          /\ NextGap([checkpoint EXCEPT !.knowledge_files_created =
                                           Append(@, KnowledgePath(name))])
    /\ cycle_results' = [cycle_results EXCEPT !.files_created = @ + 1]
    /\ UNCHANGED <<faults, disk, now, cycles, delay, i, results, gaps, count0, intAt,
                   lastSave, existing_files, stageVars, mcpVars, taskVars, regVars>>

NextFallback ==
    \/ \E n \in 0..MaxCycles, d \in {0, 1} : Run(n, d)
    \/ LoopCycle \/ LoopSleep \/ SleepDone \/ LoopDone
    \/ FallbackIdentify \/ FallbackTerms \/ SearchUnreachable
    \/ CompilePlaceholder \/ WriteFile
    \/ SaveOpenOk \/ SaveDumpOk
    \/ AppendResult \/ RunExit
    \/ Tick

SpecFallback == InitFallback /\ [][NextFallback]_vars

\* the gaps the checklist reports when no topic is covered
AllMissing == [k \in 1..Len(ExpectedTopics) |-> MissingPrefix \o ExpectedTopics[k]]

\* C12: when run(cycles=1, delay=0) returns in an environment without
\* providers that started with no checkpoint and no knowledge file, it
\* identified the 6 checklist gaps, wrote one placeholder document for each,
\* reported no error, and the checkpoint, in memory and in the file, has
\* cycle_count 1, status stopped and the 6 paths of the written files.
C12_FreshRun ==
    (pc = "run_returned" /\ count0 = 0 /\ cycles = 1 /\ delay = 0
       /\ existing_files = {})
    => /\ gaps = AllMissing
       /\ results = <<[cycle_number |-> 1, gaps_found |-> 6,
                       files_created |-> 6, errors |-> <<>>]>>
       /\ information.source = "placeholder_research"
       /\ checkpoint.cycle_count = 1
       /\ checkpoint.status = "stopped"
       /\ Len(checkpoint.knowledge_files_created) = 6
       /\ Cardinality(Range(checkpoint.knowledge_files_created)) = 6
       /\ Range(checkpoint.knowledge_files_created)
             = {KnowledgePath(f) : f \in Glob(knowledge_dir)}
       /\ Persisted = checkpoint

\* C12 witness: the run on the empty directory has returned and the
\* directory holds 6 files
C12_Witness ==
    /\ pc = "run_returned" /\ count0 = 0 /\ cycles = 1 /\ delay = 0
    /\ existing_files = {}
    /\ Cardinality(knowledge_dir) = 6
    /\ Len(checkpoint.knowledge_files_created) = 6

(* ===================== the flow without providers ====================== *)
(* SpecFlow is knowledge_agent_flow (flows/knowledge_flow.py) in the same  *)
(* environment: the tasks take their fallback paths, which are those of    *)
(* the agent except for the identification.  cycle_results holds           *)
(* flow_results; the flow keeps no checkpoint.                             *)

\* largest max_gaps_to_process a flow run is given
MaxGapsToProcess == 3

\* the fallback logic of the identify_knowledge_gaps task: gaps[:max_gaps]
FlowFallbackGaps(files, max_gaps) ==
    LET names == {Lower(f) : f \in files}
        missing(topic) == ~ \E f \in names : Contains(f, topic)
        m == SelectSeq(ExpectedTopics, missing)
        gs == [k \in 1..Len(m) |-> MissingPrefix \o m[k]]
    IN  SubSeq(gs, 1, IF max_gaps < Len(gs) THEN max_gaps ELSE Len(gs))

\* flow_results before the identification
NoFlowResults ==
    [gaps_found |-> 0, files_created |-> 0, created_files |-> <<>>, errors |-> <<>>]

InitFlow ==
    /\ disk = Absent /\ now = 0 /\ checkpoint = FreshCheckpoint(0)
    /\ pc = "flow_idle"
    /\ cycles = 0 /\ delay = 0 /\ i = 0 /\ results = <<>>
    /\ gaps = <<>> /\ gi = 0 /\ cycle_results = NoFlowResults
    /\ count0 = 0 /\ intAt = "none" /\ lastSave = "none" /\ ret = "none"
    /\ faults = 0
    /\ knowledge_dir \in SUBSET UserFiles /\ existing_files = {}
    /\ StageRest /\ McpRest /\ TaskRest /\ RegRest

\* knowledge_agent_flow(max_gaps_to_process=m) is called: Step 1
FlowIdentify(m) ==
    /\ pc = "flow_idle"
    /\ existing_files' = Glob(knowledge_dir)
    /\ gaps' = FlowFallbackGaps(existing_files', m)
    /\ cycle_results' = [NoFlowResults EXCEPT !.gaps_found = Len(gaps')]
    /\ IF gaps' # <<>> THEN gi' = 1 /\ pc' = "terms"
                      ELSE gi' = 0 /\ pc' = "flow_returned"
    /\ UNCHANGED <<checkpoint, disk, now, ret, cycles, delay, i, results, count0,
                   intAt, lastSave, faults, knowledge_dir, stageVars, mcpVars,
                   taskVars, regVars>>

\* the write_knowledge_file task, then the next gap or the return
FlowWrite ==
    /\ pc = "write"
    /\ \E name \in {KnowledgeFileName(information.title, now)} :
          /\ knowledge_dir' = knowledge_dir \cup {name}
          /\ cycle_results' = [cycle_results EXCEPT
                                  !.files_created = @ + 1,
                                  !.created_files = Append(@, KnowledgePath(name))]
    /\ IF gi < Len(gaps) THEN gi' = gi + 1 /\ pc' = "terms"
                         ELSE gi' = gi /\ pc' = "flow_returned"
    /\ UNCHANGED <<checkpoint, disk, now, ret, cycles, delay, i, results, gaps,
                   count0, intAt, lastSave, faults, existing_files, stageVars,
                   mcpVars, taskVars, regVars>>

\* a task of the current gap raises: the inner except of the flow
FlowStageRaise ==
    /\ pc \in GapStages
    /\ cycle_results' = [cycle_results EXCEPT
                            !.errors = Append(@, "Failed to process gap '"
                                                    \o gaps[gi] \o "'")]
    /\ IF gi < Len(gaps) THEN gi' = gi + 1 /\ pc' = "terms"
                         ELSE gi' = gi /\ pc' = "flow_returned"
    /\ faults < MaxFaults
    /\ faults' = faults + 1
    /\ UNCHANGED <<checkpoint, disk, now, ret, cycles, delay, i, results, gaps,
                   count0, intAt, lastSave, dirVars, stageVars, mcpVars,
                   taskVars, regVars>>

\* the caller has taken flow_results
FlowExit ==
    /\ pc = "flow_returned"
    /\ pc' = "flow_idle"
    /\ gaps' = <<>> /\ gi' = 0 /\ cycle_results' = NoFlowResults
    /\ UNCHANGED <<checkpoint, disk, now, ret, cycles, delay, i, results, count0,
                   intAt, lastSave, faults, dirVars, stageVars, mcpVars, taskVars,
                   regVars>>

NextFlow ==
    \/ \E m \in 1..MaxGapsToProcess : FlowIdentify(m)
    \/ FallbackTerms \/ SearchUnreachable \/ CompilePlaceholder
    \/ FlowWrite \/ FlowStageRaise \/ FlowExit
    \/ Tick

SpecFlow == InitFlow /\ [][NextFlow]_vars

\* the expected topics no name of files contains, in checklist order
MissingTopics(files) ==
    LET covered(topic) == \E f \in files : Contains(Lower(f), topic)
        rest(topic) == ~ covered(topic)
    IN  SelectSeq(ExpectedTopics, rest)

\* C13: while the gaps of a fallback identification are processed, the
\* checklist gaps among them are exactly one for each expected topic that no
\* listed file name contains, in checklist order.
C13_OneGapPerMissingTopic ==
    pc \in GapStages =>
        LET m == MissingTopics(existing_files)
            listed(g) == StartsWith(g, MissingPrefix)
        IN  SelectSeq(gaps, listed) = [k \in 1..Len(m) |-> MissingPrefix \o m[k]]

\* C13, second part: the gaps hold exactly one dynamic gap, as their last
\* element, in a cycle whose cycle_count is a multiple of 3, and none in any
\* other cycle.
C13_DynamicGapEveryThird ==
    pc \in GapStages =>
        LET dyn(g) == StartsWith(g, "Dynamic gap identified at cycle ")
            d == SelectSeq(gaps, dyn)
        IN  IF checkpoint.cycle_count % 3 = 0
            THEN Len(d) = 1 /\ dyn(gaps[Len(gaps)])
            ELSE d = <<>>

(* ======================= the compile stage ============================= *)
(* SpecCompile calls the compile stage with zero search results, for each  *)
(* gap and each behaviour of the text provider, in both implementations:   *)
(* KnowledgeAgent._generate_content_without_citations and the task         *)
(* generate_content_without_citations (tasks/compile_knowledge.py).        *)

\* characters str.strip() removes
Whitespace == {" ", "\n", "\t"}

\* s without its leading characters of set cs
RECURSIVE LStrip(_, _)
LStrip(s, cs) ==
    IF Len(s) > 0 /\ SubSeq(s, 1, 1) \in cs THEN LStrip(SubSeq(s, 2, Len(s)), cs)
    ELSE s

\* s without its trailing characters of set cs
RECURSIVE RStrip(_, _)
RStrip(s, cs) ==
    IF Len(s) > 0 /\ SubSeq(s, Len(s), Len(s)) \in cs
    THEN RStrip(SubSeq(s, 1, Len(s) - 1), cs)
    ELSE s

\* str.strip(cs)
Strip(s, cs) == RStrip(LStrip(s, cs), cs)

\* s.split('\n')[0]
RECURSIVE FirstLine(_)
FirstLine(s) ==
    IF Len(s) = 0 \/ SubSeq(s, 1, 1) = "\n" THEN ""
    ELSE SubSeq(s, 1, 1) \o FirstLine(SubSeq(s, 2, Len(s)))

\* the behaviours of the text provider: no client configured, the call
\* raises, the message has no content, or it has the text
Providers ==
    {[kind |-> "none"], [kind |-> "raise"], [kind |-> "null"]}
    \cup {[kind |-> "text", text |-> t] :
             t \in {"", " \n", "# MCP Tools\nBody\n", "Body"}}

\* the artifact built from the text the provider returned
LlmDocument(gap, content_text, timestamp) ==
    LET first == FirstLine(content_text)
    IN  [title |-> IF StartsWith(first, "#") THEN Strip(first, {"#", " "}) ELSE gap,
         content |-> content_text,
         source |-> "llm_generated", gathered_at |-> timestamp]

\* KnowledgeAgent._generate_content_without_citations
AgentWithoutCitations(gap, timestamp, p) ==
    IF p.kind = "text"
    THEN LlmDocument(gap, Strip(p.text, Whitespace), timestamp)
    ELSE Placeholder(gap, timestamp)

\* LLMClient.generate_completion: the stripped text, or None
GenerateCompletion(p) ==
    IF p.kind = "text" THEN [py |-> "str", v |-> Strip(p.text, Whitespace)]
    ELSE PyNone

\* generate_content_without_citations of tasks/compile_knowledge.py
TaskWithoutCitations(gap, timestamp, p) ==
    LET content_text == GenerateCompletion(p)
    IN  IF content_text # PyNone /\ content_text.v # ""
        THEN LlmDocument(gap, content_text.v, timestamp)
        ELSE Placeholder(gap, timestamp)

\* the gaps the compile stage is called with
CompileGaps ==
    {AllMissing[k] : k \in 1..Len(AllMissing)}
    \cup {"Dynamic gap identified at cycle 3", "protocol_basics of MCP",
          "How MCP servers authenticate clients"}

InitCompile ==
    /\ disk = Absent /\ now = 0 /\ checkpoint = FreshCheckpoint(0)
    /\ pc = "compile"
    /\ cycles = 0 /\ delay = 0 /\ i = 0 /\ results = <<>>
    /\ gaps \in {<<g>> : g \in CompileGaps} /\ gi = 1
    /\ cycle_results = NoCycleResults
    /\ count0 = 0 /\ intAt = "none" /\ lastSave = "none" /\ ret = "none"
    /\ faults = 0
    /\ DirRest /\ StageRest /\ McpRest /\ TaskRest /\ RegRest

\* the agent's compile stage on no search results, provider behaviour p
AgentCompile(p) ==
    /\ pc = "compile"
    /\ search_results = <<>>
    /\ information' = AgentWithoutCitations(gaps[gi], Iso(now), p)
    /\ pc' = "agent_compiled"
    /\ UNCHANGED <<checkpoint, disk, now, ret, cycles, delay, i, results, gaps,
                   gi, cycle_results, count0, intAt, lastSave, faults, dirVars,
                   search_terms, search_results, mcpVars, taskVars, regVars>>

\* the compile_knowledge task on no search results, provider behaviour p
TaskCompile(p) ==
    /\ pc = "compile"
    /\ search_results = <<>>
    /\ information' = TaskWithoutCitations(gaps[gi], Iso(now), p)
    /\ pc' = "task_compiled"
    /\ UNCHANGED <<checkpoint, disk, now, ret, cycles, delay, i, results, gaps,
                   gi, cycle_results, count0, intAt, lastSave, faults, dirVars,
                   search_terms, search_results, mcpVars, taskVars, regVars>>

NextCompile ==
    \/ \E p \in Providers : AgentCompile(p)
    \/ \E p \in Providers : TaskCompile(p)
    \/ Tick

SpecCompile == InitCompile /\ [][NextCompile]_vars

\* C14: the artifact the compile stage returns for zero search results has a
\* non-empty content field.
C14_ContentNonEmpty ==
    pc \in {"agent_compiled", "task_compiled"} => information.content # ""

\* C14 for the task alone
C14_TaskContentNonEmpty ==
    pc = "task_compiled" => information.content # ""

(* ======================== the protocol client ========================== *)
(* SpecClient: any caller calls connect, search and close of one MCPClient *)
(* in any order; the transport answers each request in any of the ways     *)
(* requests.post and response.json() can.  wire lists the requests sent.   *)

\* calls of client methods in one behaviour
MaxCalls == 4

JObj(d) == [t |-> "obj", v |-> d]
\* a response body that is not JSON
NotJson == [t |-> "invalid", v |-> "<html>"]

\* requests.post raised (connection refused, timeout)
TransportError == [kind |-> "error"]
\* a response with status code and body
Http(code, body) == [kind |-> "http", status_code |-> code, body |-> body]

\* dict.get(key, default) on a parsed JSON object; null parses to None
DictGet(d, key, default) ==
    IF key \notin DOMAIN d THEN default
    ELSE IF d[key].t = "null" THEN PyNone
    ELSE IF d[key].t = "str" THEN [py |-> "str", v |-> d[key].v]
    ELSE d[key]

\* Python's truth test on None or a string
Falsy(x) == x = PyNone \/ (x.py = "str" /\ x.v = "")

\* the answers to a handshake request
Handshakes ==
    {TransportError, Http(500, NotJson), Http(200, NotJson), Http(200, JArr(<<>>)),
     Http(200, JObj([session_id |-> JStr("s1"), capabilities |-> JArr(<<"search">>)])),
     Http(200, JObj([session_id |-> JStr("s1")])),
     Http(200, JObj([capabilities |-> JArr(<<"search">>)])),
     Http(200, JObj([session_id |-> JNull])),
     Http(200, JObj([session_id |-> JStr("")]))}

\* a search result: a JSON object, or an item that is not an object
Result(k) == [py |-> "dict", title |-> "r" \o ToString(k)]
NotAResult == [py |-> "str", v |-> "oops"]

\* the answers to a search request
SearchResponses ==
    {TransportError, Http(500, NotJson), Http(200, NotJson), Http(200, JArr(<<>>)),
     Http(200, JObj([other |-> JNull])),
     Http(200, JObj([results |-> JNull]))}
    \cup {Http(200, JObj([results |-> JArr(rs)])) :
             rs \in {<<>>, <<Result(1)>>, <<Result(1), Result(2)>>,
                     <<Result(1), NotAResult>>}}

\* the answers to a close request
CloseResponses == {TransportError, Http(500, NotJson), Http(200, NotJson)}

\* MCPClient.connect() of client c when the transport answers resp: the
\* client afterwards, the value returned, whether a request was sent
ConnectCall(c, resp) ==
    IF resp.kind = "http" /\ resp.status_code = 200 /\ resp.body.t = "obj"
    THEN [client |-> [session_id |-> DictGet(resp.body.v, "session_id", PyNone),
                      capabilities |-> DictGet(resp.body.v, "capabilities", JObj(<<>>))],
          value |-> TRUE, sent |-> TRUE]
    ELSE [client |-> c, value |-> FALSE, sent |-> TRUE]

\* SearchCall without the session test: the request is sent in any case
SearchCallUnguarded(c, resp) ==
    IF resp.kind = "http" /\ resp.status_code = 200 /\ resp.body.t = "obj"
    THEN [client |-> c, value |-> DictGet(resp.body.v, "results", JArr(<<>>)),
          sent |-> TRUE]
    ELSE [client |-> c, value |-> JArr(<<>>), sent |-> TRUE]

\* MCPClient.search(query) of client c when the transport would answer resp
SearchCall(c, resp) ==
    IF Falsy(c.session_id)
    THEN [client |-> c, value |-> JArr(<<>>), sent |-> FALSE]
    ELSE IF resp.kind = "http" /\ resp.status_code = 200 /\ resp.body.t = "obj"
         THEN [client |-> c, value |-> DictGet(resp.body.v, "results", JArr(<<>>)),
               sent |-> TRUE]
         ELSE [client |-> c, value |-> JArr(<<>>), sent |-> TRUE]

\* CloseCall without the session test: the request is sent in any case
CloseCallUnguarded(c, resp) ==
    IF resp.kind = "http" /\ resp.status_code = 200
    THEN [client |-> [c EXCEPT !.session_id = PyNone], value |-> TRUE, sent |-> TRUE]
    ELSE [client |-> c, value |-> FALSE, sent |-> TRUE]

\* MCPClient.close() of client c when the transport would answer resp
CloseCall(c, resp) ==
    IF Falsy(c.session_id)
    THEN [client |-> c, value |-> TRUE, sent |-> FALSE]
    ELSE IF resp.kind = "http" /\ resp.status_code = 200
         THEN [client |-> [c EXCEPT !.session_id = PyNone], value |-> TRUE,
               sent |-> TRUE]
         ELSE [client |-> c, value |-> FALSE, sent |-> TRUE]

\* a call of method op with outcome r is made on the client; the request,
\* if one is sent, goes to endpoint op
ClientCall(op, r, resp) ==
    /\ mcp_ret.n < MaxCalls
    /\ mcp_client' = r.client
    /\ wire' = IF r.sent THEN Append(wire, op) ELSE wire
    /\ mcp_ret' = [op |-> op, n |-> mcp_ret.n + 1,
                   response |-> IF r.sent THEN resp ELSE PyNone,
                   value |-> r.value]

InitClient ==
    /\ disk = Absent /\ now = 0 /\ checkpoint = FreshCheckpoint(0)
    /\ pc = "client"
    /\ cycles = 0 /\ delay = 0 /\ i = 0 /\ results = <<>>
    /\ gaps = <<>> /\ gi = 0 /\ cycle_results = NoCycleResults
    /\ count0 = 0 /\ intAt = "none" /\ lastSave = "none" /\ ret = "none"
    /\ faults = 0
    /\ DirRest /\ StageRest /\ McpRest /\ TaskRest /\ RegRest

McpConnect(resp) ==
    /\ ClientCall("handshake", ConnectCall(mcp_client, resp), resp)
    /\ UNCHANGED <<agentVars, dirVars, stageVars, taskVars, regVars>>

McpSearch(resp) ==
    /\ ClientCall("search", SearchCall(mcp_client, resp), resp)
    /\ UNCHANGED <<agentVars, dirVars, stageVars, taskVars, regVars>>

McpClose(resp) ==
    /\ ClientCall("close", CloseCall(mcp_client, resp), resp)
    /\ UNCHANGED <<agentVars, dirVars, stageVars, taskVars, regVars>>

NextClient ==
    \/ \E resp \in Handshakes : McpConnect(resp)
    \/ \E resp \in SearchResponses : McpSearch(resp)
    \/ \E resp \in CloseResponses : McpClose(resp)

SpecClient == InitClient /\ [][NextClient]_vars

\* this step is a call of the client method whose endpoint is op
Called(op) == mcp_ret'.n = mcp_ret.n + 1 /\ mcp_ret'.op = op

\* C15: a search() call on a client without a session returns the empty
\* list, sends no request and leaves the client as it was.
C15_SearchWithoutSession ==
    [][(Called("search") /\ Falsy(mcp_client.session_id))
          => /\ mcp_ret'.value = JArr(<<>>)
             /\ wire' = wire
             /\ mcp_client' = mcp_client]_vars

\* C15 witness: search was called after a connect and a close that both
\* succeeded, and no search request was sent
C15_Witness ==
    /\ mcp_ret.op = "search" /\ mcp_ret.value = JArr(<<>>)
    /\ Falsy(mcp_client.session_id)
    /\ wire = <<"handshake", "close">>

\* the answer to the handshake is a failure: no response, a status other
\* than 200, a body that is no JSON object, or an object without a session_id
FailedHandshake(resp) ==
    \/ resp.kind = "error"
    \/ resp.status_code # 200
    \/ resp.body.t # "obj"
    \/ Falsy(DictGet(resp.body.v, "session_id", PyNone))

\* C16: a connect() call on a client without a session whose handshake
\* fails returns false and leaves the client without a session.
C16_ConnectFailureReturnsFalse ==
    [][(Called("handshake") /\ Falsy(mcp_client.session_id)
          /\ FailedHandshake(mcp_ret'.response))
          => /\ mcp_ret'.value = FALSE
             /\ Falsy(mcp_client'.session_id)]_vars

\* C17: a close() call on a client without a session returns true, sends no
\* request and leaves the client without a session.
C17_CloseIdempotent ==
    [][(Called("close") /\ Falsy(mcp_client.session_id))
          => /\ mcp_ret'.value = TRUE
             /\ wire' = wire
             /\ mcp_client' = mcp_client]_vars

\* C17 witness: after a connect and a close that succeeded, close was called
\* two more times; only the first close sent a request
C17_Witness ==
    /\ mcp_ret.op = "close" /\ mcp_ret.n = 4 /\ mcp_ret.value = TRUE
    /\ wire = <<"handshake", "close">>
    /\ Falsy(mcp_client.session_id)

\* C18: a close() call on a client with a session leaves the client without
\* a session.
C18_CloseDestroysSession ==
    [][(Called("close") /\ ~ Falsy(mcp_client.session_id))
          => Falsy(mcp_client'.session_id)]_vars

(* ======================== the search stage ============================= *)
(* SpecSearch: one call of perform-search (KnowledgeAgent._perform_web_    *)
(* search, and the perform_web_search task) on a list of terms.  The agent *)
(* reuses its client from gap to gap, the task makes a new one; served     *)
(* lists, per search() call, the term and the response it got.             *)

\* longest list of search terms
MaxTerms == 2

\* the lists of search terms the stage is called with
TermLists ==
    UNION {[1..n -> {"mcp basics", "mcp security"}] : n \in 0..MaxTerms}

\* a client a previous call left connected because its close failed
StaleClient == [NewClient EXCEPT !.session_id = [py |-> "str", v |-> "s0"]]

\* search() returned a list of result objects: the tagging loop completes
Taggable(value) ==
    /\ value # PyNone
    /\ value.t = "arr"
    /\ \A k \in 1..Len(value.v) : value.v[k].py = "dict"

\* result["search_term"] = term
Tag(result, term) ==
    [py |-> "dict", title |-> result.title, search_term |-> term]

InitSearch ==
    /\ disk = Absent /\ now = 0 /\ checkpoint = FreshCheckpoint(0)
    /\ pc = "ws_connect"
    /\ cycles = 0 /\ delay = 0 /\ i = 0 /\ results = <<>>
    /\ gaps = <<>> /\ gi = 0 /\ cycle_results = NoCycleResults
    /\ count0 = 0 /\ intAt = "none" /\ lastSave = "none" /\ ret = "none"
    /\ faults = 0
    /\ DirRest /\ RegRest /\ TaskRest
    /\ search_terms \in TermLists /\ search_results = <<>> /\ information = PyNone
    /\ mcp_client \in {NewClient, StaleClient} /\ wire = <<>> /\ mcp_ret = NoCall

\* connected = mcp_client.connect(); if not connected: return []
WsConnect(resp) ==
    /\ pc = "ws_connect"
    /\ ClientCall("handshake", ConnectCall(mcp_client, resp), resp)
    /\ IF ConnectCall(mcp_client, resp).value
       THEN pc' = "ws_search" /\ term_i' = 1
       ELSE pc' = "ws_done" /\ term_i' = term_i
    /\ UNCHANGED <<checkpoint, disk, now, ret, cycles, delay, i, results, gaps,
                   gi, cycle_results, count0, intAt, lastSave, faults, dirVars,
                   stageVars, all_results, served, regVars>>

\* WsSearch with the try around the loop: a term whose results cannot be
\* used ends the loop
WsSearchAbort(resp) ==
    /\ pc = "ws_search"
    /\ term_i <= Len(search_terms)
    /\ ClientCall("search", SearchCall(mcp_client, resp), resp)
    /\ served' = Append(served, [term |-> search_terms[term_i],
                                 response |-> mcp_ret'.response])
    /\ IF Taggable(mcp_ret'.value)
       THEN /\ all_results' = all_results \o
                   [k \in 1..Len(mcp_ret'.value.v) |->
                       Tag(mcp_ret'.value.v[k], search_terms[term_i])]
            /\ term_i' = term_i + 1
       ELSE /\ all_results' = all_results
            /\ term_i' = Len(search_terms) + 1
    /\ UNCHANGED <<agentVars, dirVars, stageVars, regVars>>

\* one iteration of `for term in search_terms`: search, tag, extend; an
\* exception is logged and the loop goes on
WsSearch(resp) ==
    /\ pc = "ws_search"
    /\ term_i <= Len(search_terms)
    /\ ClientCall("search", SearchCall(mcp_client, resp), resp)
    /\ served' = Append(served, [term |-> search_terms[term_i],
                                 response |-> mcp_ret'.response])
    /\ all_results' =
          IF Taggable(mcp_ret'.value)
          THEN all_results \o [k \in 1..Len(mcp_ret'.value.v) |->
                                  Tag(mcp_ret'.value.v[k], search_terms[term_i])]
          ELSE all_results
    /\ term_i' = term_i + 1
    /\ UNCHANGED <<agentVars, dirVars, stageVars, regVars>>

\* WsClose that returns all_results without calling close()
WsCloseSkipped(resp) ==
    /\ pc = "ws_search"
    /\ term_i > Len(search_terms)
    /\ pc' = "ws_done"
    /\ UNCHANGED <<checkpoint, disk, now, ret, cycles, delay, i, results, gaps,
                   gi, cycle_results, count0, intAt, lastSave, faults, dirVars,
                   stageVars, mcpVars, taskVars, regVars>>

\* the loop is exhausted: mcp_client.close(), return all_results
WsClose(resp) ==
    /\ pc = "ws_search"
    /\ term_i > Len(search_terms)
    /\ ClientCall("close", CloseCall(mcp_client, resp), resp)
    /\ pc' = "ws_done"
    /\ UNCHANGED <<checkpoint, disk, now, ret, cycles, delay, i, results, gaps,
                   gi, cycle_results, count0, intAt, lastSave, faults, dirVars,
                   stageVars, taskVars, regVars>>

NextSearch ==
    \/ \E resp \in Handshakes : WsConnect(resp)
    \/ \E resp \in SearchResponses : WsSearch(resp)
    \/ \E resp \in CloseResponses : WsClose(resp)

SpecSearch == InitSearch /\ [][NextSearch]_vars

\* the search request got status 200 and a JSON object whose results are a
\* list of result objects
QuerySucceeded(resp) ==
    /\ resp # PyNone
    /\ resp.kind = "http"
    /\ resp.status_code = 200
    /\ resp.body.t = "obj"
    /\ "results" \in DOMAIN resp.body.v
    /\ Taggable(resp.body.v["results"])

\* the results of the queries of log that succeeded, each with the term of
\* its query, in the order of the queries
RECURSIVE ResultsOf(_)
ResultsOf(log) ==
    IF log = <<>> THEN <<>>
    ELSE LET q == log[Len(log)]
             rs == IF QuerySucceeded(q.response)
                   THEN q.response.body.v["results"].v ELSE <<>>
         IN  ResultsOf(SubSeq(log, 1, Len(log) - 1))
                \o [k \in 1..Len(rs) |->
                       [py |-> "dict", title |-> rs[k].title, search_term |-> q.term]]

\* C19: when perform-search returns, its result is the concatenation, in
\* term order, of the results of the queries that succeeded, each tagged with
\* the term of its query; unless the connect failed, search was called for
\* every term, in order, whatever happened to the earlier ones.
C19_PerformSearch ==
    pc = "ws_done" =>
        /\ all_results = ResultsOf(served)
        /\ \A k \in 1..Len(served) : served[k].term = search_terms[k]
        /\ mcp_ret.op = "close" => Len(served) = Len(search_terms)
        /\ mcp_ret.op = "handshake" => served = <<>> /\ all_results = <<>>

\* C19 witness: the first of two queries failed and the second contributed
\* its results
C19_Witness ==
    /\ pc = "ws_done"
    /\ Len(search_terms) = 2 /\ Len(served) = 2
    /\ served[1].response = TransportError
    /\ Len(all_results) = 2
    /\ all_results[1].search_term = search_terms[2]

(* ======================= the plugin registries ========================= *)
(* SpecRegistry: callers obtain registries with get_registry and register  *)
(* plugin classes, on a registry directly or with register_plugin.         *)
(* registries is the module's _registries; reg_ret is the latest call, its *)
(* arguments and its outcome.                                              *)

PluginTypes == {"search", "writer"}

\* register calls that return a class, in one behaviour
MaxRegistrations == 3

\* plugin classes: the class attributes each one defines
PluginClasses ==
    {[class |-> "BraveSearch", plugin_type |-> "search", plugin_name |-> "brave"],
     [class |-> "OtherBrave", plugin_type |-> "search", plugin_name |-> "brave"],
     [class |-> "WebSearch", plugin_type |-> "search", plugin_name |-> "web"],
     [class |-> "MarkdownWriter", plugin_type |-> "writer", plugin_name |-> "markdown"],
     [class |-> "Unnamed", plugin_type |-> "search"],
     [class |-> "Untyped", plugin_name |-> "markdown"]}

\* hasattr(cls, a)
HasAttr(cls, a) == a \in DOMAIN cls

\* Put that keeps the value of a key the dict already has
PutKeep(d, k, v) ==
    IF k \in DOMAIN d THEN d
    ELSE [x \in (DOMAIN d) \cup {k} |-> IF x = k THEN v ELSE d[x]]

\* d[k] = v on a dict
Put(d, k, v) == [x \in (DOMAIN d) \cup {k} |-> IF x = k THEN v ELSE d[x]]

\* PluginRegistry(plugin_type)
NewRegistry(t) == [plugin_type |-> t, plugins |-> <<>>]

\* an exception of class exc is raised
Raised(exc) == [py |-> "raise", exc |-> exc]

\* RegistryRegister without the comparison of the plugin types
RegistryRegisterUntyped(reg, cls) ==
    IF ~ HasAttr(cls, "plugin_name") \/ ~ HasAttr(cls, "plugin_type")
    THEN [registry |-> reg, value |-> Raised("ValueError")]
    ELSE [registry |-> [reg EXCEPT !.plugins = Put(@, cls.plugin_name, cls)],
          value |-> [py |-> "class", cls |-> cls]]

\* PluginRegistry.register(plugin_class) on registry reg: the registry
\* afterwards and the class returned or the exception raised
RegistryRegister(reg, cls) ==
    IF ~ HasAttr(cls, "plugin_name") \/ ~ HasAttr(cls, "plugin_type")
    THEN [registry |-> reg, value |-> Raised("ValueError")]
    ELSE IF cls.plugin_type # reg.plugin_type
         THEN [registry |-> reg, value |-> Raised("ValueError")]
         ELSE [registry |-> [reg EXCEPT !.plugins = Put(@, cls.plugin_name, cls)],
               value |-> [py |-> "class", cls |-> cls]]

InitRegistry ==
    /\ disk = Absent /\ now = 0 /\ checkpoint = FreshCheckpoint(0)
    /\ pc = "registry"
    /\ cycles = 0 /\ delay = 0 /\ i = 0 /\ results = <<>>
    /\ gaps = <<>> /\ gi = 0 /\ cycle_results = NoCycleResults
    /\ count0 = 0 /\ intAt = "none" /\ lastSave = "none" /\ ret = "none"
    /\ faults = 0
    /\ DirRest /\ StageRest /\ McpRest /\ TaskRest /\ RegRest

\* get_registry(t): the registry of type t, created when there is none
GetRegistry(t) ==
    /\ registries' = IF t \in DOMAIN registries THEN registries
                     ELSE Put(registries, t, NewRegistry(t))
    /\ reg_ret' = [op |-> "get_registry", registry_type |-> t]
    /\ UNCHANGED <<registered, agentVars, dirVars, stageVars, mcpVars, taskVars>>

\* register(cls) is called on the registry of type t
Register(t, cls) ==
    /\ t \in DOMAIN registries
    /\ registries' = [registries EXCEPT ![t] = RegistryRegister(@, cls).registry]
    /\ reg_ret' = [op |-> "register", registry_type |-> t, cls |-> cls,
                   value |-> RegistryRegister(registries[t], cls).value]
    /\ Len(registered) < MaxRegistrations
    /\ registered' = IF reg_ret'.value = Raised("ValueError") THEN registered
                     ELSE Append(registered, [registry_type |-> t, cls |-> cls])
    /\ UNCHANGED <<agentVars, dirVars, stageVars, mcpVars, taskVars>>

\* register_plugin(cls): get_registry(cls.plugin_type).register(cls)
RegisterPlugin(cls) ==
    /\ IF ~ HasAttr(cls, "plugin_type")
       THEN /\ registries' = registries
            /\ reg_ret' = [op |-> "register_plugin", cls |-> cls,
                           value |-> Raised("AttributeError")]
       ELSE LET t == cls.plugin_type
                rs == IF t \in DOMAIN registries THEN registries
                      ELSE Put(registries, t, NewRegistry(t))
                r == RegistryRegister(rs[t], cls)
            IN  /\ registries' = [rs EXCEPT ![t] = r.registry]
                /\ reg_ret' = [op |-> "register_plugin", cls |-> cls,
                               value |-> r.value]
    /\ Len(registered) < MaxRegistrations
    /\ registered' = IF reg_ret'.value.py = "raise" THEN registered
                     ELSE Append(registered, [registry_type |-> cls.plugin_type,
                                              cls |-> cls])
    /\ UNCHANGED <<agentVars, dirVars, stageVars, mcpVars, taskVars>>

\* the names plugins are asked for
PluginNames == {"brave", "web", "markdown", "missing"}

\* PluginRegistry.get(name) on registry reg: the class, or None
RegistryGet(reg, name) ==
    IF name \in DOMAIN reg.plugins THEN [py |-> "class", cls |-> reg.plugins[name]]
    ELSE PyNone

\* get(name) is called on the registry of type t
Get(t, name) ==
    /\ t \in DOMAIN registries
    /\ reg_ret' = [op |-> "get", registry_type |-> t, name |-> name,
                   value |-> RegistryGet(registries[t], name)]
    /\ UNCHANGED <<registries, registered, agentVars, dirVars, stageVars, mcpVars,
                   taskVars>>

\* create(name) is called on the registry of type t; constructed tells
\* whether the constructor of the class returns or raises
Create(t, name, constructed) ==
    /\ t \in DOMAIN registries
    /\ reg_ret' = [op |-> "create", registry_type |-> t, name |-> name,
                   value |-> IF RegistryGet(registries[t], name) = PyNone
                             THEN Raised("ValueError")
                             ELSE IF constructed
                                  THEN [py |-> "instance",
                                        cls |-> RegistryGet(registries[t], name).cls]
                                  ELSE Raised("TypeError")]
    /\ UNCHANGED <<registries, registered, agentVars, dirVars, stageVars, mcpVars,
                   taskVars>>

\* list_plugins() is called on the registry of type t: the keys
ListPlugins(t) ==
    /\ t \in DOMAIN registries
    /\ reg_ret' = [op |-> "list_plugins", registry_type |-> t,
                   value |-> DOMAIN registries[t].plugins]
    /\ UNCHANGED <<registries, registered, agentVars, dirVars, stageVars, mcpVars,
                   taskVars>>

NextRegistry ==
    \/ \E t \in PluginTypes : GetRegistry(t)
    \/ \E t \in PluginTypes, cls \in PluginClasses : Register(t, cls)
    \/ \E cls \in PluginClasses : RegisterPlugin(cls)
    \/ \E t \in PluginTypes, name \in PluginNames : Get(t, name)
    \/ \E t \in PluginTypes, name \in PluginNames, constructed \in BOOLEAN :
          Create(t, name, constructed)
    \/ \E t \in PluginTypes : ListPlugins(t)

SpecRegistry == InitRegistry /\ [][NextRegistry]_vars

\* the call recorded in r is register() of a class that declares a plugin
\* type other than that of the registry
MismatchedRegister(r) ==
    /\ r.op = "register"
    /\ HasAttr(r.cls, "plugin_type")
    /\ r.cls.plugin_type # r.registry_type

\* C20: a register() call with a class of another plugin type raises
\* ValueError and leaves every registry as it was; after every step, each
\* class stored in a registry declares the plugin type of that registry.
C20_TypeMismatchRejected ==
    [][/\ MismatchedRegister(reg_ret')
          => reg_ret'.value = Raised("ValueError") /\ registries' = registries
       /\ \A t \in DOMAIN registries' :
             /\ registries'[t].plugin_type = t
             /\ \A n \in DOMAIN registries'[t].plugins :
                   registries'[t].plugins[n].plugin_type = t]_vars

\* C20 witness: a writer class was refused by the search registry, which
\* holds a class
C20_Witness ==
    /\ MismatchedRegister(reg_ret)
    /\ reg_ret.registry_type = "search"
    /\ reg_ret.value = Raised("ValueError")
    /\ "brave" \in DOMAIN registries["search"].plugins

\* the positions in registered of the registrations under name in the
\* registry of type t
RegisteredAt(t, name) ==
    {k \in 1..Len(registered) :
        registered[k].registry_type = t /\ registered[k].cls.plugin_name = name}

\* C21: get(name) returns the class most recently registered under the name
\* in that registry, or None when there was none; list_plugins returns the
\* names registered there; create(name) raises the not-found ValueError
\* exactly when the name is unregistered; none of the three changes a registry.
C21_Lookup ==
    [][LET r == reg_ret'
       IN  /\ r.op = "get" =>
                LET at == RegisteredAt(r.registry_type, r.name)
                IN  r.value = IF at = {} THEN PyNone
                              ELSE [py |-> "class",
                                    cls |-> registered[CHOOSE k \in at :
                                                          \A j \in at : j <= k].cls]
           /\ r.op = "list_plugins" =>
                r.value = {n \in PluginNames : RegisteredAt(r.registry_type, n) # {}}
           /\ r.op = "create" =>
                (r.value = Raised("ValueError")
                    <=> RegisteredAt(r.registry_type, r.name) = {})
           /\ r.op \in {"get", "list_plugins", "create"} =>
                registries' = registries]_vars

\* C21 witness: get returned the second of two classes registered under the
\* same name
C21_Witness ==
    /\ reg_ret.op = "get" /\ reg_ret.name = "brave"
    /\ Cardinality(RegisteredAt("search", "brave")) = 2
    /\ registered[1].cls # registered[2].cls
    /\ reg_ret.value = [py |-> "class", cls |-> registered[2].cls]

(* ================== further properties of the agent ==================== *)
\* sequence s is a prefix of sequence t
IsPrefix(s, t) == Len(s) <= Len(t) /\ SubSeq(t, 1, Len(s)) = s

\* this step is the call of reset()
ResetCalled == AtRest /\ pc' = "save_open" /\ ret' = "reset_done"

\* C22: in every step of a running agent other than the call of reset(),
\* knowledge_files_created and gaps_identified keep their elements and grow
\* only at the end; a locator that is appended is that of the gap being
\* processed, and the gaps are processed in the order of the gap list.
C22_AppendOnly ==
    [][(pc # "down" /\ pc' # "down" /\ ~ ResetCalled)
          => /\ IsPrefix(checkpoint.gaps_identified, checkpoint'.gaps_identified)
             /\ IsPrefix(checkpoint.knowledge_files_created,
                         checkpoint'.knowledge_files_created)
             /\ checkpoint'.knowledge_files_created # checkpoint.knowledge_files_created
                   => /\ checkpoint'.knowledge_files_created =
                            Append(checkpoint.knowledge_files_created,
                                   Locator(gaps[gi], now))
                      /\ gaps' = gaps
                      /\ gi' >= gi]_vars

\* C22 witness: a second cycle has added its gaps and its locators to those
\* of the first
C22_Witness ==
    /\ pc = "cycle_returned"
    /\ checkpoint.cycle_count = 2
    /\ Len(checkpoint.gaps_identified) = 3
    /\ Len(checkpoint.knowledge_files_created) = 3

\* reset() is being executed: its call, or its save
ResetRunning == ResetCalled \/ ret = "reset_done"

\* C23: outside reset(), no step lowers the cycle_count a reader gets: the
\* one in memory while the agent lives, the one a load of the file returns,
\* and, when the process stops, the one the next agent will load compared
\* with the one in memory at the stop.
C23_CountNeverDecreases ==
    [][~ ResetRunning
          => /\ (pc # "down" /\ pc' # "down")
                   => checkpoint'.cycle_count >= checkpoint.cycle_count
             /\ LoadCheckpoint(disk', now').cycle_count
                   >= LoadCheckpoint(disk, now).cycle_count
             /\ (pc # "down" /\ pc' = "down")
                   => LoadCheckpoint(disk', now').cycle_count
                         >= checkpoint.cycle_count]_vars

\* checkpoint c has the field values of a fresh one
IsFresh(c) ==
    /\ c.cycle_count = 0
    /\ c.status = "stopped"
    /\ c.last_run_time = None
    /\ c.knowledge_files_created = <<>>
    /\ c.gaps_identified = <<>>

\* C24 as stated: when reset() has returned, the checkpoint in memory and
\* the one the file holds are fresh, and the value returned is that
\* checkpoint.
C24_ResetReturnsFresh ==
    pc = "reset_done"
       => /\ IsFresh(checkpoint)
          /\ IsFresh(Persisted)
          /\ disk = JsonFile(DumpCheckpoint(checkpoint))
          /\ ResetReturn = checkpoint

\* C24, amended: when reset() has returned, the checkpoint in memory is
\* fresh and created at the time of the call, the value returned is None,
\* and if the write succeeded the file holds exactly that checkpoint.
C24_ResetFreshWhenSaved ==
    pc = "reset_done"
       => /\ IsFresh(checkpoint)
          /\ checkpoint.created_at \in {Iso(t) : t \in 0..now}
          /\ ResetReturn = PyNone
          /\ lastSave \in {"ok", "failed"}
          /\ lastSave = "ok"
                => /\ disk = JsonFile(DumpCheckpoint(checkpoint))
                   /\ Persisted = checkpoint

\* C24 witness: reset() was called at time 1 and its write succeeded
C24_Witness ==
    /\ pc = "reset_done" /\ lastSave = "ok"
    /\ IsFresh(checkpoint) /\ checkpoint.created_at = Iso(1)
    /\ Persisted = checkpoint

\* C25: a step in which the write of _save_checkpoint fails changes no
\* field of the checkpoint in memory (updated_at was refreshed on entry),
\* and control goes where it goes after a successful save, with the results
\* of the cycle and of the run untouched.
C25_SaveFailureSwallowed ==
    [][(pc \in {"save_open", "save_dump"} /\ faults' = faults + 1)
          => /\ lastSave' = "failed"
             /\ checkpoint' = checkpoint
             /\ checkpoint.updated_at \in {Iso(t) : t \in 0..now}
             /\ pc' = ret
             /\ pc' \in {"cycle_returned", "cycle_raised", "run_returned",
                         "run_raised", "reset_done"}
             /\ <<results', cycle_results', gaps', gi', i', cycles'>>
                   = <<results, cycle_results, gaps, gi, i, cycles>>]_vars

\* C25 witness: the only save of run(cycles=1) failed and run has returned
\* its result, with the checkpoint of a completed cycle in memory
C25_Witness ==
    /\ pc = "run_returned" /\ lastSave = "failed" /\ intAt = "none"
    /\ cycles = 1 /\ Len(results) = 1
    /\ results[1].files_created = 1
    /\ checkpoint.status = "stopped"
    /\ checkpoint.cycle_count = count0 + 1
    /\ Persisted # checkpoint

\* C27: when run() exits, in whatever way, and no write of the call has
\* failed, the checkpoint file holds the checkpoint in memory.
C27_FinalWrite ==
    (pc \in {"run_returned", "run_raised"} /\ lastSave # "failed")
       => /\ disk = JsonFile(DumpCheckpoint(checkpoint))
          /\ Persisted = checkpoint

\* C29: a cycle starts with its counts at zero; every step inside
\* run_cycle adds to knowledge_files_created as many entries as to
\* files_created and to gaps_identified as many as to gaps_found; and when
\* run_cycle returns, files_created + len(errors) = gaps_found.  So at the
\* return the two lists have grown by files_created and gaps_found entries.
C29_CycleAccounting ==
    [][/\ (pc \in {"loop", "sleep"} /\ pc' = "identify")
             => cycle_results' = NoCycleResults
       /\ (InCycle /\ pc' # "down")
             => /\ Len(checkpoint'.knowledge_files_created)
                      - Len(checkpoint.knowledge_files_created)
                   = cycle_results'.files_created - cycle_results.files_created
                /\ Len(checkpoint'.gaps_identified)
                      - Len(checkpoint.gaps_identified)
                   = cycle_results'.gaps_found - cycle_results.gaps_found
       /\ pc' = "cycle_returned"
             => cycle_results'.files_created + Len(cycle_results'.errors)
                   = cycle_results'.gaps_found]_vars

\* C29 witness: the second cycle of an agent returns with one file written
\* and one gap failed, on top of the entries of the first cycle
C29_Witness ==
    /\ pc = "cycle_returned"
    /\ checkpoint.cycle_count = 2
    /\ cycle_results.gaps_found = 2
    /\ cycle_results.files_created = 1
    /\ Len(cycle_results.errors) = 1
    /\ Len(checkpoint.gaps_identified) = 4
    /\ Len(checkpoint.knowledge_files_created) = 3

\* C29 for the flow: when knowledge_agent_flow returns, every gap found has
\* its file in created_files or its message in errors
C29_FlowAccounting ==
    pc = "flow_returned"
       => /\ cycle_results.gaps_found = Len(gaps)
          /\ cycle_results.files_created + Len(cycle_results.errors)
                = cycle_results.gaps_found
          /\ Len(cycle_results.created_files) = cycle_results.files_created

\* C30: in perform-search, a connect() that returns False ends the stage
\* with no search and no close request sent; after a connect() that returns
\* True every call before the return is a search, except the last, which is
\* the one call of close(), made after the search of the last term; and if
\* the client still holds a session when the stage returns, the close
\* request was sent and failed.
C30_ConnectThenClose ==
    [][/\ pc = "ws_connect"
             => /\ mcp_ret'.op = "handshake"
                /\ pc' = IF mcp_ret'.value THEN "ws_search" ELSE "ws_done"
                /\ ~ mcp_ret'.value
                      => /\ wire' \in {<<>>, <<"handshake">>}
                         /\ mcp_ret'.n = 1
       /\ (pc = "ws_search" /\ pc' = "ws_search")
             => /\ mcp_ret'.op = "search"
                /\ "close" \notin Range(wire')
       /\ (pc = "ws_search" /\ pc' = "ws_done")
             => /\ mcp_ret'.op = "close"
                /\ mcp_ret'.n = Len(search_terms) + 2
                /\ Len(served') = Len(search_terms)
                /\ Cardinality({k \in 1..Len(wire') : wire'[k] = "close"}) <= 1
                /\ ~ Falsy(mcp_client'.session_id)
                      => /\ wire'[Len(wire')] = "close"
                         /\ mcp_ret'.response \in CloseResponses
                         /\ ~ (mcp_ret'.response.kind = "http"
                                  /\ mcp_ret'.response.status_code = 200)
       /\ pc = "ws_done" => pc' = "ws_done"]_vars

\* C30 witness: both searches of a stage failed in transport, close() was
\* called after them and ended the session
C30_Witness ==
    /\ pc = "ws_done"
    /\ Len(search_terms) = 2
    /\ wire = <<"handshake", "search", "search", "close">>
    /\ Len(served) = 2
    /\ \A k \in 1..2 : served[k].response = TransportError
    /\ mcp_ret.op = "close" /\ mcp_ret.value = TRUE
    /\ Falsy(mcp_client.session_id)

(* ================== the write stage with a provider ==================== *)
(* SpecWrite: one agent with a text provider and an unreachable search     *)
(* service runs cycles on an empty knowledge directory.  The provider      *)
(* names the gaps and writes the documents, so two documents can carry the *)
(* same title; knowledge_dir holds the names of the files written.         *)

\* the gaps the provider reports
WriteGaps == {"protocol_basics of MCP", "How MCP servers authenticate clients"}

InitWrite ==
    /\ disk = Absent /\ now = 0 /\ checkpoint = FreshCheckpoint(0)
    /\ pc = "constructed"
    /\ cycles = 0 /\ delay = 0 /\ i = 0 /\ results = <<>>
    /\ gaps = <<>> /\ gi = 0 /\ cycle_results = NoCycleResults
    /\ count0 = 0 /\ intAt = "none" /\ lastSave = "none" /\ ret = "none"
    /\ faults = 0
    /\ DirRest /\ StageRest /\ McpRest /\ TaskRest /\ RegRest

\* _compile_information on no search results inside run_cycle, provider
\* behaviour p
CompileWith(p) ==
    /\ pc = "compile"
    /\ search_results = <<>>
    /\ information' = AgentWithoutCitations(gaps[gi], Iso(now), p)
    /\ pc' = "write"
    /\ UNCHANGED <<checkpoint, disk, now, ret, cycles, delay, i, results, gaps,
                   gi, cycle_results, count0, intAt, lastSave, faults, dirVars,
                   search_terms, search_results, mcpVars, taskVars, regVars>>

\* cycles one behaviour of SpecWrite runs
MaxWriteCycles == 1

NextWrite ==
    \/ checkpoint.cycle_count < MaxWriteCycles /\ Run(1, 0)
    \/ LoopCycle \/ LoopDone
    \/ \E g1, g2 \in WriteGaps : g1 # g2 /\ IdentifyOk(<<g1, g2>>)
    \/ FallbackTerms \/ SearchUnreachable
    \/ \E p \in Providers : CompileWith(p)
    \/ WriteFile
    \/ SaveOpenOk \/ SaveDumpOk
    \/ AppendResult \/ RunExit
    \/ Tick

SpecWrite == InitWrite /\ [][NextWrite]_vars

\* C26: the locators in knowledge_files_created are pairwise distinct, and
\* the knowledge directory holds one file for each of them.
C26_LocatorsDistinct ==
    LET k == checkpoint.knowledge_files_created
    IN  /\ Cardinality(Range(k)) = Len(k)
        /\ Cardinality(knowledge_dir) = Len(k)

(* ===================== the limit on the gap list ======================= *)
\* max_gaps of the identify_knowledge_gaps task when the caller gives none;
\* also the "max_gaps" of the default configuration
DefaultMaxGaps == 5

\* C28: the gap list a cycle of the agent processes never has more than
\* max_gaps entries.
C28_AtMostMaxGaps ==
    pc \in GapStages => Len(gaps) <= DefaultMaxGaps

\* C28 for the flow alone: a flow run never processes more gaps than the
\* largest max_gaps_to_process it can be given
C28_FlowAtMostMaxGaps ==
    /\ Len(gaps) <= MaxGapsToProcess
    /\ cycle_results.gaps_found <= MaxGapsToProcess

====
